---- MODULE Spec2Model ----
(***************************************************************************)
(* Model of the RAG evaluation pipeline of test_LLM: the per-question loop *)
(* (retrieve -> generate -> score -> append result), the similarity        *)
(* scorer, the answer generation client and the two retrieval backends.    *)
(*                                                                         *)
(* Numbers.  Similarities, cosines, thresholds and match scores are kept   *)
(* in hundredths (70 stands for 0.70).  A raw Elasticsearch _score is kept *)
(* in tenths (35 stands for 3.5), so that score / 10.0 in hundredths is    *)
(* the same integer.                                                       *)
(*                                                                         *)
(* Texts.  Document contents and chunk texts are sequences of characters.  *)
(* Questions, answers and file names are opaque strings.                   *)
(***************************************************************************)
EXTENDS Integers, Sequences, FiniteSets, TLC

VARIABLES
    questions,          \* the question list handed to the loop
    threshold,          \* RAGEvaluator.threshold
    top_k,              \* retriever.top_k
    use_elasticsearch,  \* retriever.use_elasticsearch
    chunks,             \* retriever.chunks (Local backend)
    model_loaded,       \* evaluate.similarity._embedding_model is not None
    i,                  \* 1-based index of the question being processed
    pc,                 \* position inside the loop body
    retrieved_chunks,   \* local of the loop body
    generated_answer,   \* local of the loop body
    results,            \* the result list
    calls,              \* collaborator calls issued for the current question
    es_failed_at,       \* first question whose Elasticsearch search failed, 0 if none
    hyde,               \* RAGEvaluator.use_hyde
    retriever_args,     \* DocumentRetriever(documents=..., es_client=...)
    error,              \* the exception that left the constructor, "" if none
    retrieval,          \* the retrieval call of this question: its query and
                        \* its locals similarities and response
    chunker_call,       \* _split_into_chunks(text, chunk_size, overlap)
    chunker_result,     \* the list that call returned
    top_chunks,         \* the list retrieve(query) returned
    stats,              \* the statistics last computed from the results
    evaluators,         \* the RAGEvaluator of each run, with the state of
                        \* the random module of its process
    scoring,            \* the last calculate_similarity(text1, text2) call
                        \* and what it gave
    text_retrieval,     \* the search of retrieve(query): its locals
                        \* similarities and response
    scorer_module       \* the module the calculate_similarity of the loop
                        \* comes from

vars == <<questions, threshold, top_k, use_elasticsearch, chunks, model_loaded,
          i, pc, retrieved_chunks, generated_answer, results, calls,
          es_failed_at, hyde, retriever_args, error, retrieval, chunker_call,
          chunker_result, top_chunks, stats, evaluators,
          scoring, text_retrieval, scorer_module>>

\* what the evaluation loop never writes
setup == <<hyde, retriever_args, error, chunker_call, chunker_result,
           top_chunks, stats, evaluators,
          scoring, text_retrieval, scorer_module>>

(***************************************************************************)
(* Bounds and input domains                                                *)
(***************************************************************************)
MaxQuestions == 2

QuestionPool == <<"q1", "q2", "q3", "q4", "q5", "q6">>
ExpectedPool == <<"ref", "", "ref", "", "ref", "">>

Thresholds == {0, 70}
TopKs == {2}

\* cosine values the embedding model can produce for two non-empty texts:
\* negative, just below 0.70, exactly 0.70, and above 1 by rounding error
RawCosines == {-20, 69, 70, 101}

\* raw texts of a 200 response of the generation service
LlmResponses == {"ans", "**ans**", "  "}

\* ways the generation request can end
GenFailures == {"timeout", "connection", "http404", "http500", "malformed"}

(***************************************************************************)
(* Python helpers                                                          *)
(***************************************************************************)
Min(a, b) == IF a <= b THEN a ELSE b

Max(a, b) == IF a >= b THEN a ELSE b

\* seq[:k]
SlicePrefix(seq, k) ==
    IF k >= 0 THEN SubSeq(seq, 1, Min(k, Len(seq)))
    ELSE SubSeq(seq, 1, Max(Len(seq) + k, 0))

\* seq[-k:]   (seq[-0:] is the whole list)
SliceLast(seq, k) ==
    IF k > 0 THEN SubSeq(seq, Max(Len(seq) - k, 0) + 1, Len(seq))
    ELSE SubSeq(seq, Min(0 - k, Len(seq)) + 1, Len(seq))

\* seq[::-1]
Reverse(seq) == [j \in 1..Len(seq) |-> seq[Len(seq) + 1 - j]]

IsSpace(c) == c \in {" ", "\n"}

RECURSIVE LStrip(_)
LStrip(s) == IF s # <<>> /\ IsSpace(Head(s)) THEN LStrip(Tail(s)) ELSE s

RECURSIVE RStrip(_)
RStrip(s) ==
    IF s # <<>> /\ IsSpace(s[Len(s)]) THEN RStrip(SubSeq(s, 1, Len(s) - 1)) ELSE s

\* str.strip()
Strip(s) == RStrip(LStrip(s))

\* text.split('\n\n'), cur being the part under construction
RECURSIVE SplitBlank(_, _)
SplitBlank(s, cur) ==
    IF s = <<>> THEN <<cur>>
    ELSE IF Len(s) >= 2 /\ s[1] = "\n" /\ s[2] = "\n"
         THEN <<cur>> \o SplitBlank(SubSeq(s, 3, Len(s)), <<>>)
         ELSE SplitBlank(Tail(s), Append(cur, Head(s)))

RECURSIVE StrippedNonEmpty(_)
StrippedNonEmpty(parts) ==
    IF parts = <<>> THEN <<>>
    ELSE IF Strip(Head(parts)) # <<>>
         THEN <<Strip(Head(parts))>> \o StrippedNonEmpty(Tail(parts))
         ELSE StrippedNonEmpty(Tail(parts))

(***************************************************************************)
(* DocumentRetriever._split_into_chunks                                    *)
(***************************************************************************)
DefaultChunkSize == 500
DefaultOverlap == 50

\* the for loop starting the new chunk empty: the paragraph that did not
\* fit is lost
RECURSIVE ChunkLoopDropping(_, _, _, _)
ChunkLoopDropping(paragraphs, cs, current_chunk, chunk_size) ==
    IF paragraphs = <<>> THEN
        IF current_chunk # <<>> THEN Append(cs, Strip(current_chunk)) ELSE cs
    ELSE
        LET paragraph == Head(paragraphs) IN
        IF Len(current_chunk) + Len(paragraph) <= chunk_size
        THEN ChunkLoopDropping(Tail(paragraphs), cs,
                       current_chunk \o paragraph \o <<"\n", "\n">>, chunk_size)
        ELSE ChunkLoopDropping(Tail(paragraphs),
                       IF current_chunk # <<>>
                       THEN Append(cs, Strip(current_chunk)) ELSE cs,
                       <<>>, chunk_size)

\* the for loop with chunks.append(current_chunk), the strip() forgotten
RECURSIVE ChunkLoopUnstripped(_, _, _, _)
ChunkLoopUnstripped(paragraphs, cs, current_chunk, chunk_size) ==
    IF paragraphs = <<>> THEN
        IF current_chunk # <<>> THEN Append(cs, current_chunk) ELSE cs
    ELSE
        LET paragraph == Head(paragraphs) IN
        IF Len(current_chunk) + Len(paragraph) <= chunk_size
        THEN ChunkLoopUnstripped(Tail(paragraphs), cs,
                       current_chunk \o paragraph \o <<"\n", "\n">>, chunk_size)
        ELSE ChunkLoopUnstripped(Tail(paragraphs),
                       IF current_chunk # <<>>
                       THEN Append(cs, current_chunk) ELSE cs,
                       paragraph \o <<"\n", "\n">>, chunk_size)

\* the for loop over the paragraphs: acc is (chunks, current_chunk)
RECURSIVE ChunkLoop(_, _, _, _)
ChunkLoop(paragraphs, cs, current_chunk, chunk_size) ==
    IF paragraphs = <<>> THEN
        IF current_chunk # <<>> THEN Append(cs, Strip(current_chunk)) ELSE cs
    ELSE
        LET paragraph == Head(paragraphs) IN
        IF Len(current_chunk) + Len(paragraph) <= chunk_size
        THEN ChunkLoop(Tail(paragraphs), cs,
                       current_chunk \o paragraph \o <<"\n", "\n">>, chunk_size)
        ELSE ChunkLoop(Tail(paragraphs),
                       IF current_chunk # <<>>
                       THEN Append(cs, Strip(current_chunk)) ELSE cs,
                       paragraph \o <<"\n", "\n">>, chunk_size)

_split_into_chunks(text, chunk_size, overlap) ==
    ChunkLoop(StrippedNonEmpty(SplitBlank(text, <<>>)), <<>>, <<>>, chunk_size)

\* no statistics have been computed
NoStats == [by |-> "none"]

\* calculate_similarity has not been called
NoScoring ==
    [called |-> FALSE, text1 |-> "", text2 |-> "", was_loaded |-> FALSE,
     value |-> 0, raised |-> FALSE]

\* no call of the chunker has been made: its parameters hold their defaults
NoChunkerCall ==
    [text |-> <<>>, chunk_size |-> DefaultChunkSize, overlap |-> DefaultOverlap]

(***************************************************************************)
(* Retrieval matches and the two backends of DocumentRetriever             *)
(***************************************************************************)
\* a chunk text that is not a Python str (a number stored in the 'chunks'
\* field of an indexed document); slicing it or joining it raises TypeError
NonStr == <<"<non-str>">>

IsStr(text) == text # NonStr

\* doc.get('filename', 'unknown'); a missing key is the empty string here
Source(doc) == IF doc.filename = "" THEN "unknown" ELSE doc.filename

Match(text, score, rank, source) ==
    [text |-> text, score |-> score, rank |-> rank, source |-> source]

\* the texts one hit contributes: its 'chunks' field when present and
\* truthy (a list, cut to top_k, or a scalar), else the first two chunks
\* of its content
HitTexts(doc, k) ==
    IF doc.chunks # <<>> THEN
        IF doc.chunks_is_list THEN SlicePrefix(doc.chunks, k) ELSE <<doc.chunks>>
    ELSE
        SlicePrefix(_split_into_chunks(doc.content, DefaultChunkSize, DefaultOverlap), 2)

\* the ratio taken the wrong way round: 10.0 / score
NormalizedScoreInverted(score) ==
    IF score = 0 THEN 100 ELSE Min(10000 \div score, 100)

\* normalized_score = min(score / 10.0, 1.0), score in tenths
NormalizedScore(score) == Min(score, 100)

\* the body of the loop over response['hits']['hits']
RECURSIVE HitLoop(_, _, _)
HitLoop(hits, rs, k) ==
    IF hits = <<>> THEN rs
    ELSE
        LET hit == Head(hits)
            normalized_score == NormalizedScore(hit._score)
            texts == HitTexts(hit._source, k)
            added == [j \in 1..Len(texts) |->
                        Match(texts[j], normalized_score, Len(rs) + j,
                              Source(hit._source))]
        IN HitLoop(Tail(hits), rs \o added, k)

\* DocumentRetriever._retrieve_elasticsearch_with_scores; response.ok is
\* FALSE when es.search raises (service unreachable, timeout), and the
\* except clause then returns the empty list
_retrieve_elasticsearch_with_scores(response, k) ==
    IF ~response.ok THEN <<>>
    ELSE SlicePrefix(HitLoop(response.hits, <<>>, k), k)

\* the loop over response['hits']['hits'] of the text-only search:
\* chunks.extend / chunks.append of the texts of each hit
RECURSIVE TextLoop(_, _, _)
TextLoop(hits, cs, k) ==
    IF hits = <<>> THEN cs
    ELSE TextLoop(Tail(hits), cs \o HitTexts(Head(hits)._source, k), k)

\* the text-only search without its final chunks[:self.top_k]
_retrieve_elasticsearch_uncut(response, k) ==
    IF ~response.ok THEN <<>>
    ELSE TextLoop(response.hits, <<>>, k)

\* DocumentRetriever._retrieve_elasticsearch: the except clause returns
\* the empty list when es.search raises
_retrieve_elasticsearch(response, k) ==
    IF ~response.ok THEN <<>>
    ELSE SlicePrefix(TextLoop(response.hits, <<>>, k), k)

\* one step of the stable ascending sort np.argsort performs on short arrays
RECURSIVE InsertIndex(_, _, _)
InsertIndex(sorted, idx, similarities) ==
    IF sorted = <<>> THEN <<idx>>
    ELSE IF similarities[Head(sorted)] <= similarities[idx]
         THEN <<Head(sorted)>> \o InsertIndex(Tail(sorted), idx, similarities)
         ELSE <<idx>> \o sorted

RECURSIVE ArgsortUpTo(_, _)
ArgsortUpTo(similarities, n) ==
    IF n = 0 THEN <<>>
    ELSE InsertIndex(ArgsortUpTo(similarities, n - 1), n, similarities)

\* np.argsort(similarities), 1-based
Argsort(similarities) == ArgsortUpTo(similarities, Len(similarities))

\* the selection without its final [::-1]
TopIndicesAscending(similarities, k) == SliceLast(Argsort(similarities), k)

\* top_indices = np.argsort(similarities)[-self.top_k:][::-1]
TopIndices(similarities, k) == Reverse(SliceLast(Argsort(similarities), k))

\* the enumeration started at 0: enumerate(top_indices)
_retrieve_local_with_scores_from_zero(cs, similarities, k) ==
    LET top_indices == TopIndices(similarities, k)
    IN [rank \in 1..Len(top_indices) |->
            Match(cs[top_indices[rank]].text,
                  similarities[top_indices[rank]],
                  rank - 1,
                  cs[top_indices[rank]].filename)]

\* DocumentRetriever._retrieve_local_with_scores, given the cosine of the
\* query to every cached chunk embedding
_retrieve_local_with_scores(cs, similarities, k) ==
    LET top_indices == TopIndices(similarities, k)
    IN [rank \in 1..Len(top_indices) |->
            Match(cs[top_indices[rank]].text,
                  similarities[top_indices[rank]],
                  rank,
                  cs[top_indices[rank]].filename)]

\* DocumentRetriever._retrieve_local, given the cosine of the query to
\* every cached chunk embedding
_retrieve_local(cs, similarities, k) ==
    LET top_indices == TopIndices(similarities, k)
    IN [j \in 1..Len(top_indices) |-> cs[top_indices[j]].text]

\* the chunk list DocumentRetriever._init_local builds
RECURSIVE _init_local(_)
_init_local(documents) ==
    IF documents = <<>> THEN <<>>
    ELSE
        LET doc == Head(documents)
            doc_chunks == _split_into_chunks(doc.content, DefaultChunkSize,
                                             DefaultOverlap)
        IN [j \in 1..Len(doc_chunks) |->
                [text |-> doc_chunks[j], filename |-> Source(doc)]]
           \o _init_local(Tail(documents))

(***************************************************************************)
(* OllamaClient.generate                                                   *)
(***************************************************************************)
ModelName == "gemma2:2b"

\* str.strip() on the opaque response texts
StripStr(text) == IF text = "  " THEN "" ELSE text

\* OllamaClient._clean_response on the opaque response texts
_clean_response(text) == IF text = "**ans**" THEN "ans" ELSE StripStr(text)

\* "\n\n".join(context) raises TypeError on an item that is not a str
JoinRaises(context) == \E j \in 1..Len(context) : ~IsStr(context[j])

\* out is what the HTTP request does: [kind |-> "ok", text |-> ...] for a
\* 200 response, or one of GenFailures.  Every failure of the request is
\* turned into a message that is returned as the answer (the Russian
\* messages of the source are transliterated).
generate(question, context, out) ==
    IF context # <<>> /\ JoinRaises(context) THEN
        [raised |-> TRUE, answer |-> "", cause |-> "expected str instance"]
    ELSE
        [raised |-> FALSE, cause |-> "",
         answer |->
            CASE out.kind = "ok"         -> _clean_response(StripStr(out.text))
              [] out.kind = "http404"    -> "Oshibka: Model " \o ModelName \o " ne naidena"
              [] out.kind = "http500"    -> "Oshibka generatsii otveta"
              [] out.kind = "timeout"    -> "Taimaut generatsii otveta"
              [] out.kind = "connection" -> "Oshibka soedineniya s Ollama"
              [] out.kind = "malformed"  -> "Oshibka generatsii otveta"]

GenOutcomes ==
    {[kind |-> "ok", text |-> t] : t \in LlmResponses}
    \cup {[kind |-> f, text |-> ""] : f \in GenFailures}

(***************************************************************************)
(* evaluate.similarity.calculate_similarity                                *)
(***************************************************************************)
\* the calculate_similarity of this file, src/evaluate/similarity.py
SrcScorer == "evaluate.similarity"

\* the calculate_similarity evaluator.py asks for (from ..evaluate.similarity
\* import calculate_similarity): test_llm/evaluate/similarity.py, which is
\* not among the sources
PackageScorer == "test_llm.evaluate.similarity"

\* the modules the import of evaluator.py can bring the scorer of the loop
\* from: its own package where that module is installed, the only
\* calculate_similarity of the sources where they are assembled from what
\* is there
ScorerModules == {SrcScorer, PackageScorer}

\* one entry of the log of collaborator calls; value is the cosine the call
\* returned (0 for calls that return no number)
CallV(op, outcome, value) == [op |-> op, outcome |-> outcome, value |-> value]

Call(op, outcome) == CallV(op, outcome, 0)

\* the clamp without its lower bound
ClampUpperOnly(similarity) == Min(100, similarity)

\* similarity = max(0.0, min(1.0, similarity))
Clamp(similarity) == Max(0, Min(100, similarity))

\* what the embedding model and sklearn do during one scoring
ScorerOutcomes ==
    {[kind |-> "ok", raw |-> c] : c \in RawCosines}
    \cup {[kind |-> f, raw |-> 0] :
            f \in {"load_fail", "encode1_fail", "encode2_fail", "cosine_fail"}}

\* the calls get_embedding_model makes: the model is loaded only once
LoadCalls(loaded, ok) ==
    IF loaded THEN <<>> ELSE <<Call("load", IF ok THEN "ok" ELSE "fail")>>

\* the statements of the try block after the emptiness test: failed says
\* that one of them raised, value is the clamped cosine otherwise
ScorerBody(text1, text2, loaded, out) ==
    IF ~loaded /\ out.kind = "load_fail" THEN
        [failed |-> TRUE, value |-> 0, loaded |-> FALSE,
         calls |-> LoadCalls(loaded, FALSE)]
    ELSE IF out.kind = "encode1_fail" THEN
        [failed |-> TRUE, value |-> 0, loaded |-> TRUE,
         calls |-> LoadCalls(loaded, TRUE) \o <<Call("encode", "fail")>>]
    ELSE IF out.kind = "encode2_fail" THEN
        [failed |-> TRUE, value |-> 0, loaded |-> TRUE,
         calls |-> LoadCalls(loaded, TRUE)
                   \o <<Call("encode", "ok"), Call("encode", "fail")>>]
    ELSE IF out.kind = "cosine_fail" THEN
        [failed |-> TRUE, value |-> 0, loaded |-> TRUE,
         calls |-> LoadCalls(loaded, TRUE)
                   \o <<Call("encode", "ok"), Call("encode", "ok"),
                        Call("cosine", "fail")>>]
    ELSE
        [failed |-> FALSE, value |-> Clamp(out.raw), loaded |-> TRUE,
         calls |-> LoadCalls(loaded, TRUE)
                   \o <<Call("encode", "ok"), Call("encode", "ok"),
                        CallV("cosine", "ok", out.raw)>>]

\* calculate_similarity without the test for empty strings
calculate_similarity_no_empty_test(text1, text2, loaded, out) ==
    LET b == ScorerBody(text1, text2, loaded, out) IN
    [value |-> IF b.failed THEN 0 ELSE b.value, raised |-> FALSE,
     calls |-> b.calls, loaded |-> b.loaded]

\* calculate_similarity without the except clause
calculate_similarity_no_except(text1, text2, loaded, out) ==
    IF text1 = "" \/ text2 = "" THEN
        [value |-> 0, raised |-> FALSE, calls |-> <<>>, loaded |-> loaded]
    ELSE
        LET b == ScorerBody(text1, text2, loaded, out) IN
        [value |-> b.value, raised |-> b.failed, calls |-> b.calls,
         loaded |-> b.loaded]

\* returns the value, whether an exception left the function, the calls
\* made to the embedding model and the new state of the global model
calculate_similarity(text1, text2, loaded, out) ==
    IF text1 = "" \/ text2 = "" THEN
        [value |-> 0, raised |-> FALSE, calls |-> <<>>, loaded |-> loaded]
    ELSE
        LET b == ScorerBody(text1, text2, loaded, out) IN
        [value |-> IF b.failed THEN 0 ELSE b.value, raised |-> FALSE,
         calls |-> b.calls, loaded |-> b.loaded]

(***************************************************************************)
(* The evaluation loop: RAGEvaluator._run_tests, started by main through   *)
(* RAGEvaluator.run_evaluation                                             *)
(***************************************************************************)
\* two documents of the index
DocumentA == [content |-> <<"a">>, filename |-> "A.md"]

DocumentB == [content |-> <<"b", "\n", "\n", "b">>, filename |-> "B.md"]

\* what load_documents_elasticsearch can return: get_all_documents()
\* appends the indexed documents as the match_all scroll answers them
IndexDocuments == {<<DocumentA, DocumentB>>, <<DocumentB, DocumentA>>}

\* a hit without a 'chunks' field, a hit with a list of chunks, and hits
\* whose 'chunks' hold a value that is not a string
HitContent ==
    [_score |-> 120,
     _source |-> [filename |-> "A.md", chunks_is_list |-> FALSE, chunks |-> <<>>,
                  content |-> <<"a", "\n", "\n", "a">>]]

HitList ==
    [_score |-> 35,
     _source |-> [filename |-> "", chunks_is_list |-> TRUE,
                  chunks |-> << <<"b">>, <<"c">>, <<"d">> >>,
                  content |-> <<"b">>]]

HitScalarNonStr ==
    [_score |-> 35,
     _source |-> [filename |-> "N.md", chunks_is_list |-> FALSE, chunks |-> NonStr,
                  content |-> <<"n">>]]

HitListNonStr ==
    [_score |-> 35,
     _source |-> [filename |-> "N.md", chunks_is_list |-> TRUE,
                  chunks |-> << <<"b">>, NonStr >>, content |-> <<"n">>]]

\* no search has answered yet
NoResponse == [ok |-> TRUE, hits |-> <<>>]

\* no retrieval call is under way
NoRetrieval == [query |-> "", similarities |-> <<>>, response |-> NoResponse]

\* es_client is None; otherwise what ping(), index_exists() and
\* get_document_count() answer
NoClient == [ping |-> FALSE, index_exists |-> FALSE, doc_count |-> 0]

LiveClient == [ping |-> TRUE, index_exists |-> TRUE, doc_count |-> 2]

\* what es.search can answer for a question
EsResponses ==
    { [ok |-> FALSE, hits |-> <<>>],
      [ok |-> TRUE, hits |-> <<>>],
      [ok |-> TRUE, hits |-> <<HitContent, HitList>>],
      [ok |-> TRUE, hits |-> <<HitScalarNonStr>>],
      [ok |-> TRUE, hits |-> <<HitListNonStr>>] }

\* question_data["question"], question_data.get("answer", "")
Question(j) == questions[j].question

ExpectedAnswer(j) == questions[j].answer

\* a comparison that leaves the threshold itself out
IsCorrectStrict(similarity, thr) == similarity > thr

\* the comparison with its operands exchanged
IsCorrectReversed(similarity, thr) == thr >= similarity

\* is_correct = similarity >= self.threshold
IsCorrect(similarity, thr) == similarity >= thr

\* the dictionary appended after a question went through
NormalResult(j, answer, similarity, matches) ==
    [question |-> Question(j), expected_answer |-> ExpectedAnswer(j),
     generated_answer |-> answer, similarity |-> similarity,
     is_correct |-> IsCorrect(similarity, threshold),
     retrieved_chunks |-> matches]

\* f"ERROR: {str(e)}"
ErrorAnswer(cause) == "ERROR: " \o cause

\* an except clause that classifies its 0.0 like any other similarity
DegradedResultClassified(j, cause, matches) ==
    [question |-> Question(j), expected_answer |-> ExpectedAnswer(j),
     generated_answer |-> ErrorAnswer(cause), similarity |-> 0,
     is_correct |-> IsCorrect(0, threshold), retrieved_chunks |-> <<>>]

\* the dictionary the except clause appends
DegradedResult(j, cause, matches) ==
    [question |-> Question(j), expected_answer |-> ExpectedAnswer(j),
     generated_answer |-> ErrorAnswer(cause), similarity |-> 0,
     is_correct |-> FALSE, retrieved_chunks |-> <<>>]

\* results.insert(0, ...)
PrependResult(rs, r) == <<r>> \o rs

\* results.append(...)
AppendResult(rs, r) == Append(rs, r)

\* where the loop goes after the body: the next question, or past the loop
NextPc(j, n) == IF j >= n THEN "done" ELSE "retrieve"

\* an except clause that leaves the loop
BreakAfterException(j, n) == "done"

\* where the loop goes after the except clause: the same place
NextPcAfterException(j, n) == NextPc(j, n)

\* end of one iteration; the locals of the body are dead from here on
EndIteration(nextpc) ==
    /\ i' = i + 1
    /\ pc' = nextpc
    /\ retrieved_chunks' = <<>>
    /\ generated_answer' = ""
    /\ retrieval' = NoRetrieval

\* the except clause of the loop body; log is the call log up to the raise
HandleException(cause, log) ==
    /\ results' = AppendResult(results, DegradedResult(i, cause, retrieved_chunks))
    /\ calls' = Append(log, Call("except", cause))
    /\ EndIteration(NextPcAfterException(i, Len(questions)))

\* the state in which run_evaluation enters _run_tests.  main loads the
\* documents from the index and hands them to run_evaluation together with
\* the client; run_evaluation hands both to DocumentRetriever, which uses
\* the client and does not read the documents.  With --local-files
\* _run_tests is not entered: DocumentRetriever._init_local calls
\* embedding_model.encode_batch, which EmbeddingModel does not have, and the
\* AttributeError leaves run_evaluation and main.
LoopInit(thresholds, flags) ==
    /\ \E n \in 1..MaxQuestions :
          questions = [k \in 1..n |->
                          [question |-> QuestionPool[k], answer |-> ExpectedPool[k]]]
    /\ threshold \in thresholds
    /\ top_k \in TopKs
    /\ use_elasticsearch = TRUE
    /\ hyde \in flags
    /\ \E docs \in IndexDocuments :
          retriever_args = [documents |-> docs, es_client |-> LiveClient]
    /\ chunks = <<>>
    /\ model_loaded = FALSE
    /\ i = 1
    /\ pc = "retrieve"
    /\ retrieved_chunks = <<>>
    /\ generated_answer = ""
    /\ results = <<>>
    /\ calls = <<>>
    /\ es_failed_at = 0
    /\ error = ""
    /\ retrieval = NoRetrieval
    /\ chunker_call = NoChunkerCall
    /\ chunker_result = <<>>
    /\ top_chunks = <<>>
    /\ stats = NoStats
    /\ evaluators = <<>>
    /\ scoring = NoScoring
    /\ text_retrieval = NoRetrieval
    /\ scorer_module \in ScorerModules

\* a run with --no-hyde
Init == LoopInit(Thresholds, {FALSE})

\* a query that is not the question, whichever flag is given
QueryHypothetical(question, use_hyde) ==
    IF use_hyde THEN question ELSE "hypothetical document"

\* the query of retriever.retrieve_with_scores(question,
\* return_hyde_info=self.use_hyde): the first argument as it is, the flag
\* is not read by the retriever
QueryFor(question, use_hyde) == question

\* retriever.retrieve_with_scores(question) on the Elasticsearch backend:
\* a failing search is caught inside the retriever and gives no matches
RetrieveElasticsearchFrom(responses) ==
    /\ pc = "retrieve"
    /\ use_elasticsearch
    /\ \E answered \in responses :
          /\ retrieval' = [query |-> QueryFor(Question(i), hyde),
                           similarities |-> <<>>,
                           response |-> answered]
          /\ retrieved_chunks' = _retrieve_elasticsearch_with_scores(answered, top_k)
          /\ calls' = <<Call("search", IF answered.ok THEN "ok" ELSE "fail")>>
          /\ es_failed_at' = IF ~answered.ok /\ es_failed_at = 0 THEN i
                             ELSE es_failed_at
    /\ pc' = "generate"
    /\ UNCHANGED <<setup, questions, threshold, top_k, use_elasticsearch, chunks,
                   model_loaded, i, generated_answer, results>>

RetrieveElasticsearch == RetrieveElasticsearchFrom(EsResponses)

\* retriever.retrieve_with_scores(question) on the Local backend
RetrieveLocalFrom(cosines) ==
    /\ pc = "retrieve"
    /\ ~use_elasticsearch
    /\ \E computed \in [1..Len(chunks) -> cosines] :
          /\ retrieval' = [query |-> QueryFor(Question(i), hyde),
                           similarities |-> computed,
                           response |-> NoResponse]
          /\ retrieved_chunks' = _retrieve_local_with_scores(chunks, computed, top_k)
    /\ calls' = <<Call("encode_query", "ok")>>
    /\ pc' = "generate"
    /\ UNCHANGED <<setup, questions, threshold, top_k, use_elasticsearch, chunks,
                   model_loaded, i, generated_answer, results, es_failed_at>>

\* retrieved_chunks[0]['text'][:120] on a text that is not a string
PrintTopChunkRaises ==
    /\ pc = "generate"
    /\ retrieved_chunks # <<>>
    /\ ~IsStr(retrieved_chunks[1].text)
    /\ HandleException("object is not subscriptable", calls)
    /\ UNCHANGED <<setup, questions, threshold, top_k, use_elasticsearch, chunks,
                   model_loaded, es_failed_at>>

\* relevant_texts = [chunk['text'] for chunk in retrieved_chunks]
RelevantTexts == [j \in 1..Len(retrieved_chunks) |-> retrieved_chunks[j].text]

TopChunkPrintable ==
    IF retrieved_chunks = <<>> THEN TRUE ELSE IsStr(retrieved_chunks[1].text)

\* a loop that asks the generation service again when the request failed
GenerateCallsRetried(out) ==
    IF out.kind = "ok" THEN <<Call("generate", out.kind)>>
    ELSE <<Call("generate", out.kind), Call("generate", out.kind)>>

\* the calls of ollama_client.generate the loop makes for one question, and
\* the requests.post each of them makes: one, whatever the request does
GenerateCalls(out) == <<Call("generate", out.kind)>>

\* ollama_client.generate(question, relevant_texts) raises
GenerateRaises ==
    /\ pc = "generate"
    /\ TopChunkPrintable
    /\ \E out \in GenOutcomes :
          LET g == generate(Question(i), RelevantTexts, out) IN
          /\ g.raised
          /\ HandleException(g.cause, Append(calls, Call("generate", "raise")))
    /\ UNCHANGED <<setup, questions, threshold, top_k, use_elasticsearch, chunks,
                   model_loaded, es_failed_at>>

\* ollama_client.generate(question, relevant_texts) returns
Generate ==
    /\ pc = "generate"
    /\ TopChunkPrintable
    /\ \E out \in GenOutcomes :
          LET g == generate(Question(i), RelevantTexts, out) IN
          /\ ~g.raised
          /\ generated_answer' = g.answer
          /\ calls' = calls \o GenerateCalls(out)
    /\ pc' = "score"
    /\ UNCHANGED <<setup, questions, threshold, top_k, use_elasticsearch, chunks,
                   model_loaded, i, retrieved_chunks, results, es_failed_at,
                   retrieval>>

\* what the embedding model handed to the scorer does during one scoring
PackageScorerOutcomes ==
    {[kind |-> "ok", raw |-> c] : c \in RawCosines}
    \cup {[kind |-> "fail", raw |-> 0]}

\* calculate_similarity(answer, expected_answer, model) of
\* test_llm.evaluate.similarity, the module evaluator.py imports (line 17).
\* The module is not among the sources; the function is the scorer of
\* section 4.2 of the specification: 0.0 for an empty text, the cosine of
\* the two embeddings clamped to [0.0, 1.0], and 0.0 instead of an
\* exception when an embedding cannot be computed
calculate_similarity_with_model(text1, text2, out) ==
    IF text1 = "" \/ text2 = "" THEN 0
    ELSE IF out.kind = "fail" THEN 0
    ELSE Clamp(out.raw)

\* str(e) of the TypeError Python raises when the three arguments of the
\* loop's call meet calculate_similarity(text1, text2), before any
\* statement of the function runs
ScorerTypeError ==
    "calculate_similarity() takes 2 positional arguments but 3 were given"

\* the scoring statements of the loop body: the call of
\* calculate_similarity(answer, expected_answer,
\* retriever.embedding_model.model), the comparison with the threshold and
\* the append.  The two-parameter function of src/evaluate/similarity.py
\* does not take the call: TypeError is raised inside the try block and the
\* except clause writes the result
Score ==
    /\ pc = "score"
    /\ IF scorer_module = SrcScorer THEN
          HandleException(ScorerTypeError,
                          Append(calls, Call("calculate_similarity", "raise")))
       ELSE
          \E out \in PackageScorerOutcomes :
              LET similarity == calculate_similarity_with_model(
                                    generated_answer, ExpectedAnswer(i), out) IN
              /\ results' = AppendResult(results,
                                 NormalResult(i, generated_answer, similarity,
                                              retrieved_chunks))
              /\ calls' = Append(calls,
                                 CallV("calculate_similarity", "ok", similarity))
              /\ EndIteration(NextPc(i, Len(questions)))
    /\ UNCHANGED <<setup, questions, threshold, top_k, use_elasticsearch, chunks,
                   model_loaded, es_failed_at>>

Next ==
    \/ RetrieveElasticsearch
    \/ PrintTopChunkRaises
    \/ GenerateRaises
    \/ Generate
    \/ Score

Spec == Init /\ [][Next]_vars

\* the loop is sequential code: whenever a step is possible it is taken
FairSpec == Spec /\ WF_vars(Next)

TypeOK ==
    /\ pc \in {"retrieve", "generate", "score", "done"}
    /\ i \in 1..(Len(questions) + 1)
    /\ Len(results) <= Len(questions)

(***************************************************************************)
(* The evaluation loop started with --threshold below zero, zero or the    *)
(* default 0.7 (argparse takes any float): the same loop from another      *)
(* configuration                                                           *)
(***************************************************************************)
LowThresholds == {-10, 0, 70}

LowThresholdInit == LoopInit(LowThresholds, {FALSE})

LowThresholdSpec == LowThresholdInit /\ [][Next]_vars

(***************************************************************************)
(* The evaluation loop started with or without --hyde                      *)
(* (RAGEvaluator.run_evaluation with use_hyde): the HyDE generator is      *)
(* constructed before the loop, and the loop hands the flag to             *)
(* retrieve_with_scores as return_hyde_info, which does not read it        *)
(***************************************************************************)
\* --threshold 0.70, with and without --no-hyde
HydeInit == LoopInit({70}, BOOLEAN)

HydeSpec == HydeInit /\ [][Next]_vars

(***************************************************************************)
(* evaluate.similarity.calculate_similarity on its own: any number of      *)
(* calls in one process, each on two texts, the global model being loaded  *)
(* by the first call that needs it                                         *)
(***************************************************************************)
\* the empty string, a string of white space (which Python does not take
\* for empty), an answer and a reference
ScorerTexts == {"", "  ", "ans", "ref"}

ScorerInit ==
    /\ questions = <<>>
    /\ threshold = 70
    /\ top_k = 0
    /\ use_elasticsearch = FALSE
    /\ chunks = <<>>
    /\ model_loaded = FALSE
    /\ i = 1
    /\ pc = "scoring"
    /\ retrieved_chunks = <<>>
    /\ generated_answer = ""
    /\ results = <<>>
    /\ calls = <<>>
    /\ es_failed_at = 0
    /\ hyde = FALSE
    /\ retriever_args = [documents |-> <<>>, es_client |-> NoClient]
    /\ error = ""
    /\ retrieval = NoRetrieval
    /\ chunker_call = NoChunkerCall
    /\ chunker_result = <<>>
    /\ top_chunks = <<>>
    /\ stats = NoStats
    /\ evaluators = <<>>
    /\ scoring = NoScoring
    /\ text_retrieval = NoRetrieval
    /\ scorer_module = SrcScorer

\* one call calculate_similarity(text1, text2); calls holds the calls it
\* made to the embedding model and to sklearn
CalculateSimilarity ==
    /\ pc = "scoring"
    /\ \E t1 \in ScorerTexts, t2 \in ScorerTexts, out \in ScorerOutcomes :
          /\ out.kind = "load_fail" => ~model_loaded
          /\ LET s == calculate_similarity(t1, t2, model_loaded, out) IN
             /\ scoring' = [called |-> TRUE, text1 |-> t1, text2 |-> t2,
                            was_loaded |-> model_loaded,
                            value |-> s.value, raised |-> s.raised]
             /\ calls' = s.calls
             /\ model_loaded' = s.loaded
    /\ UNCHANGED <<questions, threshold, top_k, use_elasticsearch, chunks, i, pc,
                   retrieved_chunks, generated_answer, results, es_failed_at,
                   hyde, retriever_args, error, retrieval, chunker_call,
                   chunker_result, top_chunks, stats, evaluators, text_retrieval,
                   scorer_module>>

ScorerNext == CalculateSimilarity

ScorerSpec == ScorerInit /\ [][ScorerNext]_vars

(***************************************************************************)
(* DocumentRetriever on its own: construction, then one retrieval call,    *)
(* over every small corpus, index answer and top_k                         *)
(***************************************************************************)
MaxTopK == 3
MaxDocuments == 3
MaxHits == 2

\* one character per document, so that a chunk tells its document
CorpusChars == <<"a", "b", "c", "d", "e">>

BlankContent == <<" ", "\n">>

\* the j-th document of a corpus: one short paragraph, or only white space
CorpusDocument(j, blank) ==
    [content |-> IF blank THEN BlankContent ELSE <<CorpusChars[j]>>,
     filename |-> "doc.md"]

\* documents=None or [], and every list of up to MaxDocuments documents
Corpora ==
    UNION { { [j \in 1..n |-> CorpusDocument(j, blank[j])] :
                blank \in [1..n -> BOOLEAN] } : n \in 0..MaxDocuments }

\* cosines of the query to the chunks: ties, and a negative value
TieCosines == {-10, 30, 80}

EsClients ==
    {[ping |-> p, index_exists |-> e, doc_count |-> n] :
        p \in BOOLEAN, e \in BOOLEAN, n \in {0, 2}}

\* raw _score values in tenths: 0.5, 3.5, 10.0 and 12.0
RawScores == {5, 35, 100, 120}

HitScalar ==
    [_score |-> 35,
     _source |-> [filename |-> "S.md", chunks_is_list |-> FALSE,
                  chunks |-> <<"s">>, content |-> <<"s">>]]

Hits ==
    {[_score |-> s, _source |-> d] :
        s \in RawScores,
        d \in {HitContent._source, HitList._source, HitScalar._source}}

\* Elasticsearch answers with the hits in descending _score
SortedHitLists ==
    {h \in UNION {[1..n -> Hits] : n \in 0..MaxHits} :
        \A j \in 1..(Len(h) - 1) : h[j]._score >= h[j + 1]._score}

\* the search fails, or answers at most "size": self.top_k * 2 hits
SearchAnswers(k) ==
    {[ok |-> FALSE, hits |-> <<>>]}
    \cup {[ok |-> TRUE, hits |-> h] : h \in {l \in SortedHitLists : Len(l) <= 2 * k}}

RetrieverInit ==
    /\ questions = <<[question |-> QuestionPool[1], answer |-> ExpectedPool[1]]>>
    /\ threshold = 70
    /\ top_k \in 0..MaxTopK
    /\ use_elasticsearch \in BOOLEAN
    /\ chunks = <<>>
    /\ model_loaded = FALSE
    /\ i = 1
    /\ pc = "construct"
    /\ retrieved_chunks = <<>>
    /\ generated_answer = ""
    /\ results = <<>>
    /\ calls = <<>>
    /\ es_failed_at = 0
    /\ hyde = FALSE
    /\ retriever_args \in
          IF use_elasticsearch
          THEN {[documents |-> <<>>, es_client |-> c] : c \in EsClients}
          ELSE {[documents |-> d, es_client |-> NoClient] : d \in Corpora}
    /\ error = ""
    /\ retrieval = NoRetrieval
    /\ chunker_call = NoChunkerCall
    /\ chunker_result = <<>>
    /\ top_chunks = <<>>
    /\ stats = NoStats
    /\ evaluators = <<>>
    /\ scoring = NoScoring
    /\ text_retrieval = NoRetrieval
    /\ scorer_module = SrcScorer

\* the exception _init_elasticsearch raises, "" if none (the Russian
\* messages of the source are transliterated)
InitElasticsearchError(client) ==
    IF ~client.ping THEN "Ne udalos podklyuchitsya k Elasticsearch"
    ELSE IF ~client.index_exists THEN "Indeks ne sushchestvuet"
    ELSE IF client.doc_count = 0 THEN "Indeks pustoi"
    ELSE ""

\* DocumentRetriever.__init__ with es_client and es_index
InitElasticsearch ==
    /\ pc = "construct"
    /\ use_elasticsearch
    /\ error' = InitElasticsearchError(retriever_args.es_client)
    /\ pc' = IF error' = "" THEN "retrieve" ELSE "failed"
    /\ UNCHANGED <<questions, threshold, top_k, use_elasticsearch, chunks,
                   model_loaded, i, retrieved_chunks, generated_answer, results,
                   calls, es_failed_at, hyde, retriever_args, retrieval,
                   chunker_call, chunker_result, top_chunks, stats, evaluators,
          scoring, text_retrieval,
                   scorer_module>>

\* DocumentRetriever.__init__ with documents: no documents is a
\* ValueError; otherwise the chunks are built and handed to encode_batch,
\* which returns or raises
InitLocal ==
    /\ pc = "construct"
    /\ ~use_elasticsearch
    /\ IF retriever_args.documents = <<>> THEN
          /\ error' = "Dokumenty ne predostavleny dlya lokalnogo rezhima"
          /\ pc' = "failed"
          /\ chunks' = chunks
       ELSE
          /\ chunks' = _init_local(retriever_args.documents)
          /\ \E encoded \in BOOLEAN :
                /\ error' = IF encoded THEN "" ELSE "encode_batch failed"
                /\ pc' = IF encoded THEN "retrieve" ELSE "failed"
    /\ UNCHANGED <<questions, threshold, top_k, use_elasticsearch,
                   model_loaded, i, retrieved_chunks, generated_answer, results,
                   calls, es_failed_at, hyde, retriever_args, retrieval,
                   chunker_call, chunker_result, top_chunks, stats, evaluators,
          scoring, text_retrieval,
                   scorer_module>>

\* retrieve_with_scores on a retriever built from any index answer
RetrieveElasticsearchAny == RetrieveElasticsearchFrom(SearchAnswers(top_k))

\* retrieve_with_scores on a retriever built from any corpus
RetrieveLocalAny == RetrieveLocalFrom(TieCosines)

\* retrieve_with_scores on the Local backend when
\* embedding_model.encode(query) raises: nothing in the retriever catches it
RetrieveLocalAnyRaises ==
    /\ pc = "retrieve"
    /\ ~use_elasticsearch
    /\ calls' = <<Call("encode_query", "fail")>>
    /\ error' = "encode failed"
    /\ pc' = "raised"
    /\ UNCHANGED <<questions, threshold, top_k, use_elasticsearch, chunks,
                   model_loaded, i, retrieved_chunks, generated_answer, results,
                   es_failed_at, hyde, retriever_args, retrieval,
                   chunker_call, chunker_result, top_chunks, stats, evaluators,
                   scoring, text_retrieval,
                   scorer_module>>

\* retriever.retrieve(query) with the query of the retrieve_with_scores
\* call before it.  It makes a search of its own: _retrieve_elasticsearch
\* sends another es.search, which answers or fails whatever the first one
\* did, and _retrieve_local encodes the query again
RetrieveTexts ==
    /\ pc = "generate"
    /\ IF use_elasticsearch THEN
          \E answered \in SearchAnswers(top_k) :
              /\ text_retrieval' = [query |-> retrieval.query,
                                    similarities |-> <<>>,
                                    response |-> answered]
              /\ top_chunks' = _retrieve_elasticsearch(answered, top_k)
              /\ calls' = Append(calls,
                                 Call("search", IF answered.ok THEN "ok" ELSE "fail"))
       ELSE
          \E computed \in [1..Len(chunks) -> TieCosines] :
              /\ text_retrieval' = [query |-> retrieval.query,
                                    similarities |-> computed,
                                    response |-> NoResponse]
              /\ top_chunks' = _retrieve_local(chunks, computed, top_k)
              /\ calls' = Append(calls, Call("encode_query", "ok"))
    /\ pc' = "texts"
    /\ UNCHANGED <<questions, threshold, top_k, use_elasticsearch, chunks,
                   model_loaded, i, retrieved_chunks, generated_answer, results,
                   es_failed_at, hyde, retriever_args, error, retrieval,
                   chunker_call, chunker_result, stats, evaluators, scoring,
                   scorer_module>>

\* retriever.retrieve(query) on the Local backend when the second
\* embedding_model.encode(query) raises
RetrieveTextsRaises ==
    /\ pc = "generate"
    /\ ~use_elasticsearch
    /\ calls' = Append(calls, Call("encode_query", "fail"))
    /\ error' = "encode failed"
    /\ pc' = "raised"
    /\ UNCHANGED <<questions, threshold, top_k, use_elasticsearch, chunks,
                   model_loaded, i, retrieved_chunks, generated_answer, results,
                   es_failed_at, hyde, retriever_args, retrieval,
                   chunker_call, chunker_result, top_chunks, stats, evaluators,
                   scoring, text_retrieval,
                   scorer_module>>

RetrieverNext ==
    \/ InitElasticsearch
    \/ InitLocal
    \/ RetrieveElasticsearchAny
    \/ RetrieveLocalAny
    \/ RetrieveLocalAnyRaises
    \/ RetrieveTexts
    \/ RetrieveTextsRaises

RetrieverSpec == RetrieverInit /\ [][RetrieverNext]_vars

(***************************************************************************)
(* The statistics of a result list: RAGEvaluator._calculate_stats and the  *)
(* head of evaluate.metrics.generate_html_report, applied at any moment to *)
(* the results collected so far.  Similarities and scores are hundredths;  *)
(* a quotient is kept exact, as a fraction in lowest terms.                *)
(***************************************************************************)
MaxResults == 2

Abs(n) == IF n < 0 THEN -n ELSE n

RECURSIVE Gcd(_, _)
Gcd(a, b) == IF b = 0 THEN a ELSE Gcd(b, a % b)

\* num / den for den > 0
Ratio(num, den) ==
    LET g == Gcd(Abs(num), den)
    IN [num |-> num \div g, den |-> den \div g]

\* the literal 0 of the else branches
Zero == [num |-> 0, den |-> 1]

\* a count that takes every result for a correct one
CorrectCountAll(rs) == Len(rs)

\* sum(1 for r in results if r["is_correct"])
CorrectCount(rs) == Cardinality({k \in 1..Len(rs) : rs[k].is_correct})

\* sum(r["similarity"] for r in results)
RECURSIVE SumSimilarity(_)
SumSimilarity(rs) ==
    IF rs = <<>> THEN 0 ELSE Head(rs).similarity + SumSimilarity(Tail(rs))

\* all_chunks after the loop of all_chunks.extend(r.get('retrieved_chunks', []))
RECURSIVE AllChunks(_)
AllChunks(rs) ==
    IF rs = <<>> THEN <<>> ELSE Head(rs).retrieved_chunks \o AllChunks(Tail(rs))

\* sum(c.get('score', 0) for c in all_chunks)
RECURSIVE SumScore(_)
SumScore(cs) == IF cs = <<>> THEN 0 ELSE Head(cs).score + SumScore(Tail(cs))

\* correct / total * 100 if total > 0 else 0
Accuracy(correct, total) ==
    IF total > 0 THEN Ratio(correct * 100, total) ELSE Zero

\* sum / n if n > 0 else 0
Mean(sum, n) == IF n > 0 THEN Ratio(sum, n) ELSE Zero

\* a _calculate_stats that pops the results as it counts them
_calculate_stats_consuming(rs) ==
    [by |-> "calculate_stats",
     accuracy |-> Accuracy(CorrectCount(rs), Len(rs)),
     avg_similarity |-> Mean(SumSimilarity(rs), Len(rs)),
     avg_chunk_score |-> Mean(SumScore(AllChunks(rs)), Len(AllChunks(rs))),
     correct_count |-> CorrectCount(rs),
     total_count |-> Len(rs),
     results |-> <<>>]

\* RAGEvaluator._calculate_stats: the dictionary it returns; "results" is
\* the list it was given
_calculate_stats(rs) ==
    [by |-> "calculate_stats",
     accuracy |-> Accuracy(CorrectCount(rs), Len(rs)),
     avg_similarity |-> Mean(SumSimilarity(rs), Len(rs)),
     avg_chunk_score |-> Mean(SumScore(AllChunks(rs)), Len(AllChunks(rs))),
     correct_count |-> CorrectCount(rs),
     total_count |-> Len(rs),
     results |-> rs]

\* sources_used, as the set of positions of all_chunks with that source;
\* source_stats = Counter(sources_used)
SourceStats(cs) ==
    [src \in {cs[k].source : k \in 1..Len(cs)} |->
        Cardinality({k \in 1..Len(cs) : cs[k].source = src})]

\* sum(1 for c in all_chunks if c.get('score', 0) >= 0.7)
HighQuality(cs) == Cardinality({k \in 1..Len(cs) : cs[k].score >= 70})

\* the medium bucket with its lower bound made strict
MediumQualityStrict(cs) ==
    Cardinality({k \in 1..Len(cs) : 50 < cs[k].score /\ cs[k].score < 70})

\* sum(1 for c in all_chunks if 0.5 <= c.get('score', 0) < 0.7)
MediumQuality(cs) ==
    Cardinality({k \in 1..Len(cs) : 50 <= cs[k].score /\ cs[k].score < 70})

\* sum(1 for c in all_chunks if c.get('score', 0) < 0.5)
LowQuality(cs) == Cardinality({k \in 1..Len(cs) : cs[k].score < 50})

\* the numbers generate_html_report computes before it writes the page;
\* results is its parameter
generate_html_report(rs) ==
    LET all_chunks == AllChunks(rs) IN
    [by |-> "report",
     total |-> Len(rs),
     correct |-> CorrectCount(rs),
     incorrect |-> Len(rs) - CorrectCount(rs),
     accuracy |-> Accuracy(CorrectCount(rs), Len(rs)),
     avg_similarity |-> Mean(SumSimilarity(rs), Len(rs)),
     avg_chunk_score |-> Mean(SumScore(all_chunks), Len(all_chunks)),
     source_stats |-> SourceStats(all_chunks),
     high_quality |-> HighQuality(all_chunks),
     medium_quality |-> MediumQuality(all_chunks),
     low_quality |-> LowQuality(all_chunks),
     results |-> rs]

\* the match lists a question can come back with: scores on and next to
\* the bucket bounds, a negative cosine, a missing file name
MatchLists ==
    {<<>>,
     <<Match(<<"t">>, 70, 1, "a.md"), Match(<<"u">>, 50, 2, "b.md")>>,
     <<Match(<<"t">>, 69, 1, "a.md")>>,
     <<Match(<<"t">>, 49, 1, "unknown"), Match(<<"u">>, -10, 2, "a.md")>>,
     <<Match(<<"t">>, 100, 1, "b.md")>>}

\* the result dictionaries _calculate_stats and generate_html_report can be
\* handed for question j: the one the except clause of the loop writes,
\* for each exception the loop body raises, and the one its try block
\* writes
ResultPool(j) ==
    {DegradedResult(j, cause, <<>>) :
        cause \in {"object is not subscriptable", "expected str instance",
                   ScorerTypeError}}
    \cup {NormalResult(j, "ans", sim, ms) : sim \in {35, 70}, ms \in MatchLists}

AggregatorInit ==
    /\ questions = [k \in 1..MaxResults |->
                       [question |-> QuestionPool[k], answer |-> ExpectedPool[k]]]
    /\ threshold = 70
    /\ top_k = 2
    /\ use_elasticsearch = FALSE
    /\ chunks = <<>>
    /\ model_loaded = FALSE
    /\ i = 1
    /\ pc = "collect"
    /\ retrieved_chunks = <<>>
    /\ generated_answer = ""
    /\ results = <<>>
    /\ calls = <<>>
    /\ es_failed_at = 0
    /\ hyde = FALSE
    /\ retriever_args = [documents |-> <<>>, es_client |-> NoClient]
    /\ error = ""
    /\ retrieval = NoRetrieval
    /\ chunker_call = NoChunkerCall
    /\ chunker_result = <<>>
    /\ top_chunks = <<>>
    /\ stats = NoStats
    /\ evaluators = <<>>
    /\ scoring = NoScoring
    /\ text_retrieval = NoRetrieval
    /\ scorer_module = SrcScorer

\* the loop appends the result of one more question
CollectResult ==
    /\ Len(results) < MaxResults
    /\ \E r \in ResultPool(Len(results) + 1) : results' = AppendResult(results, r)
    /\ UNCHANGED <<questions, threshold, top_k, use_elasticsearch, chunks,
                   model_loaded, i, pc, retrieved_chunks, generated_answer,
                   calls, es_failed_at, hyde, retriever_args, error, retrieval,
                   chunker_call, chunker_result, top_chunks, stats, evaluators,
          scoring, text_retrieval,
                   scorer_module>>

\* stats = self._calculate_stats(results): the list the caller holds is the
\* list the function was given and returns
CalculateStats ==
    /\ stats' = _calculate_stats(results)
    /\ results' = stats'.results
    /\ UNCHANGED <<questions, threshold, top_k, use_elasticsearch, chunks,
                   model_loaded, i, pc, retrieved_chunks, generated_answer,
                   calls, es_failed_at, hyde, retriever_args, error, retrieval,
                   chunker_call, chunker_result, top_chunks, evaluators,
          scoring, text_retrieval,
                   scorer_module>>

\* generate_html_report(results, ...)
GenerateHtmlReport ==
    /\ stats' = generate_html_report(results)
    /\ UNCHANGED <<questions, threshold, top_k, use_elasticsearch, chunks,
                   model_loaded, i, pc, retrieved_chunks, generated_answer, results,
                   calls, es_failed_at, hyde, retriever_args, error, retrieval,
                   chunker_call, chunker_result, top_chunks, evaluators,
          scoring, text_retrieval,
                   scorer_module>>

AggregatorNext ==
    \/ CollectResult
    \/ CalculateStats
    \/ GenerateHtmlReport

AggregatorSpec == AggregatorInit /\ [][AggregatorNext]_vars

(***************************************************************************)
(* The choice of the questions: RAGEvaluator.__init__ seeds the random     *)
(* module of its process when a seed is given, and _load_questions cuts    *)
(* the loaded list to max_questions with random.sample.  Two runs (two     *)
(* processes) are given the same seed, question file and max_questions.    *)
(* The generator is the one of the random module seen through the words it *)
(* gives: getrandbits(k) is the top k bits of the next 32-bit word, and a  *)
(* generator state is the sequence of the words to come, of which the top  *)
(* WordBits bits are kept.  random.sample is the selection from a pool the *)
(* library performs on short lists.                                        *)
(***************************************************************************)
MaxLoaded == 3

Runs == {1, 2}

\* --seed: absent (None), or an integer
SeedChoices ==
    {[given |-> FALSE, value |-> 0]}
    \cup {[given |-> TRUE, value |-> v] : v \in {7, 42}}

\* the bits kept of each word: enough for randbelow(n), n < 2^WordBits
WordBits == 3

Words == 0..(2^WordBits - 1)

\* the generator of a process that has not called random.seed: the module
\* seeded itself from the operating system when it was imported
OsSeeded == <<-1>>

\* the words such a generator can give: any.  A rejected word changes no
\* draw, so sequences as long as the longest selection are enumerated
Entropy == [1..(MaxLoaded - 1) -> Words]

\* random.seed(a): the state depends on a alone.  The first words of the
\* Mersenne Twister after random.seed(7) and random.seed(42)
SeedState(a) ==
    IF a = 7 THEN <<2, 7, 1, 3, 5, 0, 0, 6, 4, 0, 2, 4>>
    ELSE <<5, 0, 0, 5, 2, 1, 1, 1, 5, 0, 5, 5>>

\* n.bit_length()
RECURSIVE BitLength(_)
BitLength(n) == IF n = 0 THEN 0 ELSE 1 + BitLength(n \div 2)

\* getrandbits(k) on the next word
GetRandBits(word, k) == word \div 2^(WordBits - k)

\* _randbelow_with_getrandbits(n): r = getrandbits(k), again while r >= n.
\* Gives the number drawn and the state left; ok is FALSE when the words
\* enumerated end before a word is accepted
RECURSIVE RandBelow(_, _)
RandBelow(state, n) ==
    IF state = <<>> THEN [ok |-> FALSE, value |-> 0, state |-> <<>>]
    ELSE LET r == GetRandBits(Head(state), BitLength(n)) IN
         IF r >= n THEN RandBelow(Tail(state), n)
         ELSE [ok |-> TRUE, value |-> r, state |-> Tail(state)]

\* a selection that leaves the chosen item in the pool
RECURSIVE SampleLoopReplacing(_, _, _, _, _)
SampleLoopReplacing(pool, n, k, result, state) ==
    IF Len(result) = k THEN [ok |-> TRUE, result |-> result, state |-> state]
    ELSE LET draw == RandBelow(state, n - Len(result))
             j == draw.value + 1
         IN IF ~draw.ok THEN [ok |-> FALSE, result |-> result, state |-> <<>>]
            ELSE SampleLoopReplacing(pool, n, k, Append(result, pool[j]),
                                     draw.state)

\* for i in range(k): j = randbelow(n - i); result[i] = pool[j];
\*                    pool[j] = pool[n - i - 1]
RECURSIVE SampleLoop(_, _, _, _, _)
SampleLoop(pool, n, k, result, state) ==
    IF Len(result) = k THEN [ok |-> TRUE, result |-> result, state |-> state]
    ELSE LET draw == RandBelow(state, n - Len(result))
             j == draw.value + 1
         IN IF ~draw.ok THEN [ok |-> FALSE, result |-> result, state |-> <<>>]
            ELSE SampleLoop([pool EXCEPT ![j] = pool[n - Len(result)]], n, k,
                            Append(result, pool[j]), draw.state)

\* random.sample(population, k) for 0 <= k <= len(population)
RandomSample(population, k, state) ==
    SampleLoop(population, Len(population), k, <<>>, state)

\* a constructor that stores the seed and does not seed
RAGEvaluator_init_unseeded(e) == [e EXCEPT !.pc = "constructed"]

\* RAGEvaluator.__init__: if random_seed is not None: random.seed(random_seed)
RAGEvaluator_init(e) ==
    IF e.random_seed.given
    THEN [e EXCEPT !.rng = SeedState(e.random_seed.value),
                   !.seedings = @ + 1,
                   !.pc = "constructed"]
    ELSE [e EXCEPT !.pc = "constructed"]

\* the word sequences the generator of the process can be about to give
GeneratorStates(rng) == IF rng = OsSeeded THEN Entropy ELSE {rng}

\* RAGEvaluator._load_questions with a questions file: the loaded list, cut
\* by random.sample when it is longer than max_questions; state is what the
\* generator of the process is about to give
_load_questions(e, state) ==
    IF Len(e.loaded) > e.max_questions
    THEN LET sampled == RandomSample(e.loaded, e.max_questions, state)
         IN [e EXCEPT !.questions = sampled.result,
                      !.rng = sampled.state,
                      !.pc = "loaded"]
    ELSE [e EXCEPT !.questions = e.loaded, !.pc = "loaded"]

SamplingInit ==
    /\ questions = <<>>
    /\ threshold = 70
    /\ top_k = 2
    /\ use_elasticsearch = FALSE
    /\ chunks = <<>>
    /\ model_loaded = FALSE
    /\ i = 1
    /\ pc = "sampling"
    /\ retrieved_chunks = <<>>
    /\ generated_answer = ""
    /\ results = <<>>
    /\ calls = <<>>
    /\ es_failed_at = 0
    /\ hyde = FALSE
    /\ retriever_args = [documents |-> <<>>, es_client |-> NoClient]
    /\ error = ""
    /\ retrieval = NoRetrieval
    /\ chunker_call = NoChunkerCall
    /\ chunker_result = <<>>
    /\ top_chunks = <<>>
    /\ stats = NoStats
    /\ scoring = NoScoring
    /\ text_retrieval = NoRetrieval
    /\ scorer_module = SrcScorer
    /\ \E seed \in SeedChoices, n \in 0..MaxLoaded, m \in 0..(MaxLoaded + 1) :
          evaluators =
              [r \in Runs |->
                  [pc |-> "new",
                   random_seed |-> seed,
                   max_questions |-> m,
                   loaded |-> [k \in 1..n |->
                                  [question |-> QuestionPool[k],
                                   answer |-> ExpectedPool[k]]],
                   rng |-> OsSeeded,
                   seedings |-> 0,
                   questions |-> <<>>]]

\* RAGEvaluator(...) in run r
Construct(r) ==
    /\ evaluators[r].pc = "new"
    /\ evaluators' = [evaluators EXCEPT ![r] = RAGEvaluator_init(@)]
    /\ UNCHANGED <<questions, threshold, top_k, use_elasticsearch, chunks,
                   model_loaded, i, pc, retrieved_chunks, generated_answer, results,
                   calls, es_failed_at, hyde, retriever_args, error, retrieval,
                   chunker_call, chunker_result, top_chunks, stats, scoring,
                   text_retrieval,
                   scorer_module>>

\* self._load_questions(...) at the start of run_evaluation in run r
LoadQuestions(r) ==
    /\ evaluators[r].pc = "constructed"
    /\ \E state \in GeneratorStates(evaluators[r].rng) :
          /\ Len(evaluators[r].loaded) > evaluators[r].max_questions =>
                RandomSample(evaluators[r].loaded, evaluators[r].max_questions,
                             state).ok
          /\ evaluators' = [evaluators EXCEPT ![r] = _load_questions(@, state)]
    /\ UNCHANGED <<questions, threshold, top_k, use_elasticsearch, chunks,
                   model_loaded, i, pc, retrieved_chunks, generated_answer, results,
                   calls, es_failed_at, hyde, retriever_args, error, retrieval,
                   chunker_call, chunker_result, top_chunks, stats, scoring,
                   text_retrieval,
                   scorer_module>>

SamplingNext ==
    \E r \in Runs :
        \/ Construct(r)
        \/ LoadQuestions(r)

SamplingSpec == SamplingInit /\ [][SamplingNext]_vars

(***************************************************************************)
(* _split_into_chunks on its own (load_to_elasticsearch.split_into_chunks  *)
(* is the same function), over every short text and small chunk_size       *)
(***************************************************************************)
MaxTextLen == 5
MaxChunkSize == 6

TextChars == {"a", " ", "\n"}

Texts == UNION {[1..n -> TextChars] : n \in 0..MaxTextLen}

ChunkerInit ==
    /\ questions = <<>>
    /\ threshold = 70
    /\ top_k = 3
    /\ use_elasticsearch = FALSE
    /\ chunks = <<>>
    /\ model_loaded = FALSE
    /\ i = 1
    /\ pc = "split"
    /\ retrieved_chunks = <<>>
    /\ generated_answer = ""
    /\ results = <<>>
    /\ calls = <<>>
    /\ es_failed_at = 0
    /\ hyde = FALSE
    /\ retriever_args = [documents |-> <<>>, es_client |-> NoClient]
    /\ error = ""
    /\ retrieval = NoRetrieval
    /\ \E t \in Texts, c \in 1..MaxChunkSize :
          \E o \in 0..(c - 1) :
              chunker_call = [text |-> t, chunk_size |-> c, overlap |-> o]
    /\ chunker_result = <<>>
    /\ top_chunks = <<>>
    /\ stats = NoStats
    /\ evaluators = <<>>
    /\ scoring = NoScoring
    /\ text_retrieval = NoRetrieval
    /\ scorer_module = SrcScorer

\* one call of _split_into_chunks(text, chunk_size, overlap)
SplitIntoChunks ==
    /\ pc = "split"
    /\ chunker_result' = _split_into_chunks(chunker_call.text,
                                            chunker_call.chunk_size,
                                            chunker_call.overlap)
    /\ pc' = "chunked"
    /\ UNCHANGED <<questions, threshold, top_k, use_elasticsearch, chunks,
                   model_loaded, i, retrieved_chunks, generated_answer, results,
                   calls, es_failed_at, hyde, retriever_args, error, retrieval,
                   chunker_call, top_chunks, stats, evaluators,
          scoring, text_retrieval,
                   scorer_module>>

ChunkerNext == SplitIntoChunks

ChunkerSpec == ChunkerInit /\ [][ChunkerNext]_vars

(***************************************************************************)
(* Vocabulary of the properties                                            *)
(***************************************************************************)
\* no question is in flight: the call log is that of the last result
Idle == pc \in {"retrieve", "done"} /\ results # <<>>

LastResult == results[Len(results)]

Called(op, outcome) ==
    \E k \in 1..Len(calls) : calls[k].op = op /\ calls[k].outcome = outcome

CalledOp(op) == \E k \in 1..Len(calls) : calls[k].op = op

ExceptionCauses ==
    {"object is not subscriptable", "expected str instance", ScorerTypeError}

IsErrorAnswer(answer) == answer \in {ErrorAnswer(c) : c \in ExceptionCauses}

\* the except clause ran for the last result
ExceptionInLast == Idle /\ CalledOp("except")

\* the generation request of the last result failed
GenerationFailedInLast ==
    Idle /\ \E f \in GenFailures : Called("generate", f)

\* the last result went through the comparison with the threshold
ScoredLast == Idle /\ Called("calculate_similarity", "ok")

\* calculate_similarity has returned or raised
ScorerCalled == pc = "scoring" /\ scoring.called

\* the scorer lost its model, an embedding or the cosine
ScorerFailed ==
    ScorerCalled /\ (Called("load", "fail") \/ Called("encode", "fail")
                     \/ Called("cosine", "fail"))

\* retrieve_with_scores has returned its list for the current question
Retrieved == pc = "generate"

RetrievedLocal == Retrieved /\ ~use_elasticsearch

RetrievedElasticsearch == Retrieved /\ use_elasticsearch

\* the constructor of the retriever has returned or raised
Constructed == pc \in {"retrieve", "failed", "generate", "texts", "raised"}

\* the chunk of the corpus a Local match was taken from (the corpora of
\* RetrieverInit give every chunk a text of its own)
ChunkIndex(r) ==
    CHOOSE j \in 1..Len(chunks) : chunks[j].text = retrieved_chunks[r].text

ReturnedIndices == {ChunkIndex(r) : r \in 1..Len(retrieved_chunks)}

\* the calls made to the generation collaborator for the current question
\* before retrieval returned
RewriteCalls == {k \in 1..Len(calls) : calls[k].op = "generate"}

\* _split_into_chunks has returned
Chunked == pc = "chunked"

\* where chunk j starts in the text when the chunks are spans that follow
\* each other with the given overlap, the last one ending with the text
RECURSIVE SpanStart(_)
SpanStart(j) ==
    IF j = 1 THEN 1
    ELSE IF j = Len(chunker_result)
         THEN Len(chunker_call.text) - Len(chunker_result[j]) + 1
         ELSE SpanStart(j - 1) + Len(chunker_result[j - 1]) - chunker_call.overlap

SpanEnd(j) == SpanStart(j) + Len(chunker_result[j]) - 1

\* chunk j is the span of the text that starts at SpanStart(j)
IsSpan(j) ==
    IF SpanStart(j) >= 1 /\ SpanEnd(j) <= Len(chunker_call.text)
    THEN chunker_result[j] = SubSeq(chunker_call.text, SpanStart(j), SpanEnd(j))
    ELSE FALSE

\* paragraphs joined by one blank line
RECURSIVE JoinBlank(_)
JoinBlank(paragraphs) ==
    IF paragraphs = <<>> THEN <<>>
    ELSE IF Len(paragraphs) = 1 THEN Head(paragraphs)
    ELSE Head(paragraphs) \o <<"\n", "\n">> \o JoinBlank(Tail(paragraphs))

\* every blank line of the trimmed text stands alone: no white space
\* before or after its two line feeds
PlainSeparators(t) ==
    \A k \in 2..(Len(t) - 2) :
        (t[k] = "\n" /\ t[k + 1] = "\n") =>
            ~IsSpace(t[k - 1]) /\ ~IsSpace(t[k + 2])

\* how many chunk texts the hits of a response carry
RECURSIVE CandidateCount(_)
CandidateCount(hits) ==
    IF hits = <<>> THEN 0
    ELSE LET doc == Head(hits)._source IN
         (IF doc.chunks # <<>>
          THEN (IF doc.chunks_is_list THEN Len(doc.chunks) ELSE 1)
          ELSE Len(_split_into_chunks(doc.content, DefaultChunkSize,
                                      DefaultOverlap)))
         + CandidateCount(Tail(hits))

AvailableCandidates ==
    IF use_elasticsearch THEN CandidateCount(retrieval.response.hits)
    ELSE Len(chunks)

\* the hit of the response the r-th match of HitLoop was taken from
RECURSIVE HitOfFrom(_, _, _)
HitOfFrom(hits, r, h) ==
    LET n == Len(HitTexts(Head(hits)._source, top_k)) IN
    IF r <= n THEN h ELSE HitOfFrom(Tail(hits), r - n, h + 1)

HitOf(r) == HitOfFrom(retrieval.response.hits, r, 1)

RawScoreOf(r) == retrieval.response.hits[HitOf(r)]._score

(***************************************************************************)
(* Claims                                                                  *)
(***************************************************************************)
\* C1: when the Elasticsearch search fails at question k the batch is
\* aborted, and the run ends with exactly the k-1 results collected before.
C1_BatchAbortsOnBackendFailure ==
    (pc = "done" /\ es_failed_at > 0) => Len(results) = es_failed_at - 1

\* C2: an exception raised while a question is processed leaves a result
\* with similarity 0 and is_correct false, the loop goes on with the next
\* question, and at the end every question has its result.
C2_FailureIsolation ==
    /\ ExceptionInLast =>
          /\ LastResult.similarity = 0
          /\ LastResult.is_correct = FALSE
          /\ pc = NextPc(Len(results), Len(questions))
    /\ pc = "done" => Len(results) = Len(questions)

C2_Witness ==
    /\ pc = "done"
    /\ Len(results) = 2
    /\ threshold = 0
    /\ results[1].generated_answer = ErrorAnswer("expected str instance")
    /\ results[1].similarity = 0
    /\ ~results[1].is_correct
    /\ results[2].generated_answer = ErrorAnswer("object is not subscriptable")
    /\ results[2].similarity = 0
    /\ ~results[2].is_correct

\* C3: whenever the generation request fails (timeout, lost connection,
\* error status, malformed body) the question ends there, as a degraded
\* result: the except clause records the failure of the request as
\* "ERROR: <cause>" with similarity 0 and is_correct false, and the question
\* is not scored.
C3_GenerationFailureIsDegraded ==
    GenerationFailedInLast =>
        /\ IsErrorAnswer(LastResult.generated_answer)
        /\ ~CalledOp("calculate_similarity")
        /\ LastResult.similarity = 0
        /\ LastResult.is_correct = FALSE

\* C4: a degraded result appended after retrieval succeeded carries the
\* matches retrieval returned for that question.
C4_DegradedKeepsMatches ==
    [][(/\ pc \in {"generate", "score"}
        /\ Len(results') = Len(results) + 1
        /\ IsErrorAnswer(results'[Len(results')].generated_answer))
       => results'[Len(results')].retrieved_chunks = retrieved_chunks]_vars

\* C5: whatever the external calls do, the run ends and every question has
\* a result.
C5_EveryQuestionDone ==
    <>(pc = "done" /\ Len(results) = Len(questions))

C5_Witness ==
    /\ pc = "done"
    /\ Len(results) = Len(questions)
    /\ Len(questions) = 2
    /\ results[1].generated_answer = ErrorAnswer("expected str instance")
    /\ Called("generate", "timeout")
    /\ Called("calculate_similarity", "ok")
    /\ ~IsErrorAnswer(results[2].generated_answer)

\* C6: the result list only grows at its end: it holds one result per
\* processed question, result j is about question j, and no step changes
\* or removes a result already in the list.
C6_AppendOnly ==
    [][/\ Len(results') = i' - 1
       /\ Len(results') >= Len(results)
       /\ \A j \in 1..Len(results) : results'[j] = results[j]
       /\ \A j \in 1..Len(results') :
             /\ results'[j].question = Question(j)
             /\ results'[j].expected_answer = ExpectedAnswer(j)]_vars

C6_Witness ==
    /\ pc = "done"
    /\ Len(results) = 2
    /\ results[1].question = "q1" /\ results[1].expected_answer = "ref"
    /\ results[2].question = "q2" /\ results[2].expected_answer = ""

\* C7: at the SCORE step a similarity equal to the threshold is classified
\* correct and a similarity below the threshold incorrect.
C7_InclusiveThreshold ==
    ScoredLast =>
        /\ LastResult.similarity = threshold => LastResult.is_correct = TRUE
        /\ LastResult.similarity < threshold => LastResult.is_correct = FALSE

\* threshold 0.70: one question scored 0.70 and correct, the next scored
\* below and incorrect
C7_Witness ==
    /\ pc = "done"
    /\ Len(results) = 2
    /\ threshold = 70
    /\ ScoredLast
    /\ results[1].similarity = 70 /\ results[1].is_correct
    /\ results[2].similarity < 70 /\ ~results[2].is_correct

\* C8: the similarity calculate_similarity returns, which is the one
\* compared with the threshold and stored, lies between 0.0 and 1.0: a
\* negative cosine is returned as 0, a cosine above 1 as 1, any other
\* cosine unchanged.
C8_SimilarityInUnitInterval ==
    ScorerCalled =>
        /\ scoring.value >= 0 /\ scoring.value <= 100
        /\ \A k \in 1..Len(calls) :
              (calls[k].op = "cosine" /\ calls[k].outcome = "ok") =>
                  scoring.value =
                      IF calls[k].value < 0 THEN 0
                      ELSE IF calls[k].value > 100 THEN 100
                      ELSE calls[k].value

C8_Witness ==
    /\ ScorerCalled
    /\ \E k \in 1..Len(calls) : calls[k].op = "cosine" /\ calls[k].value < 0
    /\ scoring.value = 0

\* C9: calculate_similarity with an empty first or second text returns 0.0,
\* raises nothing, and neither loads the embedding model nor asks it to
\* encode.
C9_EmptyTextScoresZeroWithoutModel ==
    (ScorerCalled /\ (scoring.text1 = "" \/ scoring.text2 = "")) =>
        /\ scoring.value = 0
        /\ ~scoring.raised
        /\ calls = <<>>
        /\ model_loaded = scoring.was_loaded

\* the first call of the process, with an empty reference: the model is
\* still not loaded
C9_Witness ==
    /\ ScorerCalled
    /\ scoring.text1 = "ans" /\ scoring.text2 = ""
    /\ scoring.value = 0
    /\ ~scoring.was_loaded
    /\ ~model_loaded

\* C10: when loading the model, encoding a text or computing the cosine
\* fails, calculate_similarity returns 0.0 and raises nothing.
C10_ScorerAbsorbsFailure ==
    ScorerFailed => (scoring.value = 0 /\ ~scoring.raised)

C10_Witness ==
    /\ ScorerCalled
    /\ Called("cosine", "fail")
    /\ scoring.text1 = "ans" /\ scoring.text2 = "ref"
    /\ scoring.value = 0
    /\ ~scoring.raised

\* C11: the scores of the matches the Local backend returns never increase
\* along the list, and each is the cosine computed for the chunk it names.
C11_LocalScoresNonIncreasing ==
    RetrievedLocal =>
        /\ \A r \in 1..(Len(retrieved_chunks) - 1) :
              retrieved_chunks[r].score >= retrieved_chunks[r + 1].score
        /\ \A r \in 1..Len(retrieved_chunks) :
              retrieved_chunks[r].score = retrieval.similarities[ChunkIndex(r)]

C11_Witness ==
    /\ RetrievedLocal
    /\ top_k = 2
    /\ retrieval.similarities = <<30, -10, 80>>
    /\ Len(retrieved_chunks) = 2
    /\ retrieved_chunks[1].score = 80 /\ retrieved_chunks[1].text = <<"c">>
    /\ retrieved_chunks[2].score = 30 /\ retrieved_chunks[2].text = <<"a">>

\* C12: for every top_k >= 0, top_k = 0 included, retrieval returns exactly
\* min(top_k, available candidates) matches.
C12_LengthIsMinTopK ==
    Retrieved => Len(retrieved_chunks) = Min(top_k, AvailableCandidates)

\* C13: chunks of equal score are returned by ascending index in the
\* corpus, and when only some of them fit in top_k the earlier ones are kept.
C13_TiesByAscendingIndex ==
    (RetrievedLocal /\ top_k >= 1) =>
        /\ \A r1, r2 \in 1..Len(retrieved_chunks) :
              (r1 < r2 /\ retrieved_chunks[r1].score = retrieved_chunks[r2].score)
                  => ChunkIndex(r1) < ChunkIndex(r2)
        /\ \A a, b \in 1..Len(chunks) :
              (a < b /\ retrieval.similarities[a] = retrieval.similarities[b]
                     /\ b \in ReturnedIndices)
                  => a \in ReturnedIndices

\* C14: in every list retrieve_with_scores returns, from either backend and
\* also after the cut to top_k, the j-th match has rank j.
C14_RankIsPosition ==
    Retrieved =>
        \A j \in 1..Len(retrieved_chunks) : retrieved_chunks[j].rank = j

C14_Witness ==
    /\ RetrievedElasticsearch
    /\ top_k = 2
    /\ Len(retrieval.response.hits) = 2
    /\ Len(HitLoop(retrieval.response.hits, <<>>, top_k)) = 3
    /\ Len(retrieved_chunks) = 2
    /\ retrieved_chunks[1].rank = 1
    /\ retrieved_chunks[2].rank = 2
    /\ retrieved_chunks[1].source # retrieved_chunks[2].source

\* C15: with the Elasticsearch backend an index that is reachable, exists
\* and holds no document raises nowhere: the constructor returns, and
\* retrieval returns the empty list.
C15_EmptyIndexIsNotAnError ==
    (/\ use_elasticsearch
     /\ Constructed
     /\ retriever_args.es_client.ping
     /\ retriever_args.es_client.index_exists
     /\ retriever_args.es_client.doc_count = 0)
    => /\ error = ""
       /\ pc # "failed"
       /\ Retrieved => retrieved_chunks = <<>>

\* C16: the Elasticsearch backend's normalization keeps the order of the
\* raw scores: a match from a hit of higher or equal raw score has a higher
\* or equal score, and the returned scores never increase along the list.
C16_NormalizationMonotone ==
    (RetrievedElasticsearch /\ retrieval.response.ok) =>
        /\ \A r1, r2 \in 1..Len(retrieved_chunks) :
              RawScoreOf(r1) >= RawScoreOf(r2)
                  => retrieved_chunks[r1].score >= retrieved_chunks[r2].score
        /\ \A r \in 1..(Len(retrieved_chunks) - 1) :
              retrieved_chunks[r].score >= retrieved_chunks[r + 1].score

C16_Witness ==
    /\ RetrievedElasticsearch
    /\ Len(retrieval.response.hits) = 2
    /\ retrieval.response.hits[1]._score = 120
    /\ retrieval.response.hits[2]._score = 35
    /\ Len(retrieved_chunks) = 2
    /\ retrieved_chunks[1].score = 100
    /\ retrieved_chunks[2].score = 35

\* C17: constructing the Local backend on a corpus that yields no chunk
\* fails, also when documents were given and all of them are blank.
C17_ZeroChunksFailConstruction ==
    (/\ ~use_elasticsearch
     /\ Constructed
     /\ _init_local(retriever_args.documents) = <<>>)
    => pc = "failed" /\ error # ""

\* C18: for 0 <= overlap < chunk_size the chunks are spans of the text that
\* cover it from its first to its last character without a gap, each
\* starting overlap characters before the end of the one before it, except
\* possibly the last one.  Stated for texts that begin and end with a
\* character that is not white space.
C18_ChunkSpansCoverWithOverlap ==
    (Chunked /\ chunker_call.text # <<>>
             /\ Strip(chunker_call.text) = chunker_call.text) =>
        IF chunker_result = <<>> THEN FALSE
        ELSE /\ \A j \in 1..Len(chunker_result) : IsSpan(j)
             /\ SpanEnd(Len(chunker_result)) = Len(chunker_call.text)
             /\ \A j \in 2..Len(chunker_result) : SpanStart(j) <= SpanEnd(j - 1) + 1

\* C19 as claimed: every text shorter than chunk_size, an empty or blank
\* one included, gives exactly one chunk, equal to the trimmed text.
C19_ShortTextIsOneTrimmedChunk ==
    (Chunked /\ Len(chunker_call.text) < chunker_call.chunk_size) =>
        chunker_result = <<Strip(chunker_call.text)>>

\* C19: a text shorter than chunk_size gives no chunk when it is empty or
\* blank, and otherwise exactly one chunk: its paragraphs, trimmed and
\* joined by one blank line, which is the trimmed text itself when every
\* blank line of the text stands alone.
C19_ShortTextIsOneJoinedChunk ==
    (Chunked /\ Len(chunker_call.text) < chunker_call.chunk_size) =>
        LET t == Strip(chunker_call.text) IN
        IF t = <<>> THEN chunker_result = <<>>
        ELSE /\ Len(chunker_result) = 1
             /\ chunker_result[1] = JoinBlank(StrippedNonEmpty(SplitBlank(t, <<>>)))
             /\ PlainSeparators(t) => chunker_result[1] = t

C19_Witness ==
    /\ Chunked
    /\ chunker_call.text = <<" ", "a", "\n", "\n", "a">>
    /\ chunker_call.chunk_size = 6
    /\ chunker_result = << <<"a", "\n", "\n", "a">> >>

\* C20: with HyDE enabled, by the time retrieval has returned for a
\* question the generation collaborator has been invoked exactly once for
\* the rewrite, and the retriever was queried with the rewritten text, not
\* with the question.
C20_HydeRewritesQuery ==
    (hyde /\ Retrieved) =>
        /\ Cardinality(RewriteCalls) = 1
        /\ retrieval.query # Question(i)

\* the matches the backend gives for what the retrieval step received
BackendMatches ==
    IF use_elasticsearch
    THEN _retrieve_elasticsearch_with_scores(retrieval.response, top_k)
    ELSE _retrieve_local_with_scores(chunks, retrieval.similarities, top_k)

\* C21: when HyDE is disabled, or no rewrite succeeded before retrieval,
\* the query the retriever received is the original question and the
\* retrieval step hands the loop the matches of the backend.
C21_FallbackQueryIsQuestion ==
    (Retrieved /\ (~hyde \/ RewriteCalls = {})) =>
        /\ retrieval.query = Question(i)
        /\ retrieved_chunks = BackendMatches

C21_Witness ==
    /\ Retrieved
    /\ ~hyde
    /\ retrieval.query = Question(i)
    /\ retrieved_chunks # <<>>

\* the calls of the current question that went to the retrieval backend
RetrievalCalls ==
    {k \in 1..Len(calls) : calls[k].op \in {"search", "encode_query"}}

\* the calls of the current question that asked for an answer
GenerationCalls == {k \in 1..Len(calls) : calls[k].op = "generate"}

\* C22: no retries.  For each question the loop makes at most one retrieval
\* call and at most one answer-generation call, and it never comes back to
\* the retrieval or the generation of a question it has already attempted:
\* retrieval is entered only for the next question, generation only from
\* the retrieval of the same question.
C22_NoRetries ==
    /\ [](Cardinality(RetrievalCalls) <= 1 /\ Cardinality(GenerationCalls) <= 1)
    /\ [][/\ pc' = "retrieve" => i' = i + 1
          /\ pc' = "generate" => (pc = "retrieve" /\ i' = i)
          /\ i' >= i]_vars

\* a question whose generation request failed has been left behind with
\* one retrieval call and one generation call
C22_Witness ==
    /\ Idle
    /\ Called("generate", "timeout")
    /\ Cardinality(RetrievalCalls) = 1
    /\ Cardinality(GenerationCalls) = 1

\* C27: in every state of the result list a result classified correct has
\* a similarity at or above the threshold, and a result recorded by the
\* except clause (answer "ERROR: <cause>") is classified incorrect with
\* similarity 0, also when the threshold is zero or negative.
C27_CorrectMeansAboveThreshold ==
    \A j \in 1..Len(results) :
        /\ results[j].is_correct => results[j].similarity >= threshold
        /\ IsErrorAnswer(results[j].generated_answer) =>
              (~results[j].is_correct /\ results[j].similarity = 0)

\* with a negative threshold, a question whose generation raised and a
\* question scored 0: the first is incorrect with similarity 0, which is
\* above the threshold, the second went through the comparison and is
\* correct
C27_Witness ==
    /\ threshold < 0
    /\ Len(results) = 2
    /\ results[1].generated_answer = ErrorAnswer("expected str instance")
    /\ ~results[1].is_correct /\ results[1].similarity = 0
    /\ results[1].similarity >= threshold
    /\ ~IsErrorAnswer(results[2].generated_answer)
    /\ results[2].is_correct /\ results[2].similarity = 0

\* the non-blank paragraphs of a text, trimmed, in order
ParagraphsOf(t) == StrippedNonEmpty(SplitBlank(t, <<>>))

\* the paragraphs of the chunks, read chunk after chunk
RECURSIVE ParagraphsOfChunks(_)
ParagraphsOfChunks(cs) ==
    IF cs = <<>> THEN <<>>
    ELSE ParagraphsOf(Head(cs)) \o ParagraphsOfChunks(Tail(cs))

\* C29: _split_into_chunks partitions the paragraph sequence.  Every chunk
\* is non-empty and is a run of whole paragraphs joined by blank lines, and
\* the paragraphs of the chunks read in order are the non-blank trimmed
\* paragraphs of the input, each once and in input order, for every overlap.
C29_ChunksPartitionParagraphs ==
    Chunked =>
        /\ \A j \in 1..Len(chunker_result) :
              /\ chunker_result[j] # <<>>
              /\ chunker_result[j] = JoinBlank(ParagraphsOf(chunker_result[j]))
        /\ ParagraphsOfChunks(chunker_result) = ParagraphsOf(chunker_call.text)

\* two different paragraphs that do not fit one chunk, a positive overlap
C29_Witness ==
    /\ Chunked
    /\ chunker_call.overlap > 0
    /\ Len(ParagraphsOf(chunker_call.text)) = 2
    /\ Len(chunker_result) = 2
    /\ chunker_result[1] # chunker_result[2]

\* retrieve(query) has returned after retrieve_with_scores(query)
RetrievedBoth == pc = "texts"

\* the texts of the matches retrieve_with_scores returned, in order
MatchTexts == [j \in 1..Len(retrieved_chunks) |-> retrieved_chunks[j].text]

\* the search of retrieve(query) found what the search of
\* retrieve_with_scores(query) found: the same index answer, the same
\* cosines
SameSearch ==
    /\ text_retrieval.query = retrieval.query
    /\ text_retrieval.response = retrieval.response
    /\ text_retrieval.similarities = retrieval.similarities

\* C28: for the same retriever state and query, that is when both searches
\* find the same, retrieve(query) returns the texts of
\* retrieve_with_scores(query) in the same order in both backends; and a
\* search that raises makes the function that sent it return the empty list.
C28_RetrieveIsTextsOfScored ==
    RetrievedBoth =>
        /\ SameSearch => top_chunks = MatchTexts
        /\ (use_elasticsearch /\ ~retrieval.response.ok) => retrieved_chunks = <<>>
        /\ (use_elasticsearch /\ ~text_retrieval.response.ok) => top_chunks = <<>>

\* two texts came back from retrieve, the same two in the same order as
\* in the matches of retrieve_with_scores
C28_Witness ==
    /\ RetrievedBoth
    /\ SameSearch
    /\ Len(top_chunks) >= 2
    /\ top_chunks[1] # top_chunks[2]
    /\ top_chunks = MatchTexts

\* statistics have been computed, by either function
Aggregated == stats.by # "none"

StatsTotal == IF stats.by = "report" THEN stats.total ELSE stats.total_count

StatsCorrect == IF stats.by = "report" THEN stats.correct ELSE stats.correct_count

\* the results counted correct in the list the statistics were computed from
CorrectOnes == {k \in 1..Len(stats.results) : stats.results[k].is_correct}

\* num/den is the quotient a/b (b > 0)
IsQuotient(q, a, b) == q.den > 0 /\ q.num * b = a * q.den

\* total, correct and the mean similarity as the claim C24 states them
CountsAndMean ==
    /\ StatsTotal = Len(stats.results)
    /\ StatsCorrect = Cardinality(CorrectOnes)
    /\ IF stats.results = <<>>
       THEN stats.avg_similarity.num = 0
       ELSE IsQuotient(stats.avg_similarity, SumSimilarity(stats.results),
                       Len(stats.results))

\* C24 as stated: the statistics give total = number of results, correct =
\* number of results with is_correct true, accuracy = correct/total and the
\* mean similarity, and 0 for accuracy and mean of an empty list.
C24_AccuracyIsFraction ==
    Aggregated =>
        /\ CountsAndMean
        /\ IF stats.results = <<>>
           THEN stats.accuracy.num = 0
           ELSE IsQuotient(stats.accuracy, StatsCorrect, StatsTotal)

\* C24, amended: the same, with accuracy the percentage 100 * correct/total
\* (between 0 and 100); for an empty list accuracy and mean similarity are 0
\* and the statistics are still produced.
C24_AccuracyIsPercentage ==
    Aggregated =>
        /\ CountsAndMean
        /\ IF stats.results = <<>>
           THEN stats.accuracy.num = 0
           ELSE IsQuotient(stats.accuracy, 100 * StatsCorrect, StatsTotal)
        /\ stats.accuracy.num >= 0
        /\ stats.accuracy.num <= 100 * stats.accuracy.den

\* one correct and one incorrect result give 50 percent
C24_Witness ==
    /\ stats.by = "calculate_stats"
    /\ stats.total_count = 2
    /\ stats.correct_count = 1
    /\ stats.accuracy = [num |-> 50, den |-> 1]

\* the matches of all the results the report was computed from
ReportMatches == AllChunks(stats.results)

\* the number of quality buckets match k of the report falls in
BucketsOf(k) ==
    LET score == ReportMatches[k].score IN
    (IF score >= 70 THEN 1 ELSE 0)
    + (IF 50 <= score /\ score < 70 THEN 1 ELSE 0)
    + (IF score < 50 THEN 1 ELSE 0)

RECURSIVE SumCounts(_, _)
SumCounts(counter, keys) ==
    IF keys = {} THEN 0
    ELSE LET key == CHOOSE x \in keys : TRUE
         IN counter[key] + SumCounts(counter, keys \ {key})

\* C25: over the matches of all results, each match is counted in exactly
\* one quality bucket (high from 0.7, medium from 0.5 to below 0.7, low
\* below 0.5): the three counts are the sizes of the buckets and sum to the
\* number of matches, and so do the per-source counts.
C25_BucketsPartitionMatches ==
    stats.by = "report" =>
        /\ \A k \in 1..Len(ReportMatches) : BucketsOf(k) = 1
        /\ stats.high_quality =
              Cardinality({k \in 1..Len(ReportMatches) : ReportMatches[k].score >= 70})
        /\ stats.low_quality =
              Cardinality({k \in 1..Len(ReportMatches) : ReportMatches[k].score < 50})
        /\ stats.high_quality + stats.medium_quality + stats.low_quality
              = Len(ReportMatches)
        /\ SumCounts(stats.source_stats, DOMAIN stats.source_stats)
              = Len(ReportMatches)
        /\ \A k \in 1..Len(ReportMatches) :
              ReportMatches[k].source \in DOMAIN stats.source_stats

\* a report over matches on both bucket bounds and below zero
C25_Witness ==
    /\ stats.by = "report"
    /\ stats.high_quality = 1
    /\ stats.medium_quality = 1
    /\ stats.low_quality = 2
    /\ \E k \in 1..Len(ReportMatches) : ReportMatches[k].score = 50
    /\ \E k \in 1..Len(ReportMatches) : ReportMatches[k].score < 0

\* C26: computing statistics never modifies the result list or a result
\* in it, and applied to the results collected so far (a prefix of the final
\* list) it gives the statistics of exactly that list: the only steps that
\* change the list are appends that compute nothing, and the statistics a
\* step produces are those of the list as it stood.
C26_AggregateLeavesResults ==
    [][/\ results' # results =>
            (stats' = stats /\ SlicePrefix(results', Len(results)) = results)
       /\ stats' # stats =>
            /\ results' = results
            /\ stats'.results = results
            /\ (IF stats'.by = "report" THEN stats'.total
                ELSE stats'.total_count) = Len(results)
            /\ (IF stats'.by = "report" THEN stats'.correct
                ELSE stats'.correct_count) = CorrectCount(results)]_vars

\* statistics of a one-result prefix are held while the list has grown
C26_Witness ==
    /\ Aggregated
    /\ Len(stats.results) = 1
    /\ Len(results) = 2
    /\ results[1] = stats.results[1]
    /\ StatsTotal = 1

\* run r has chosen its questions
Loaded(r) == evaluators[r].pc = "loaded"

\* the two runs were given a seed
Seeded == \A r \in Runs : evaluators[r].random_seed.given

\* C23: two runs with the same configured random_seed, the same loaded
\* question list and the same max_questions hold the same questions in the
\* same order once both have chosen, whatever state the generator of each
\* process started in; the generator has been seeded once when the
\* constructor has returned, and is not seeded again.
C23_SeededSamplingReproducible ==
    Seeded =>
        /\ \A r \in Runs :
              evaluators[r].seedings = IF evaluators[r].pc = "new" THEN 0 ELSE 1
        /\ (Loaded(1) /\ Loaded(2)) =>
              evaluators[1].questions = evaluators[2].questions

\* two processes seeded with 42 have both cut three questions to two, and
\* both hold the third question followed by the first
C23_Witness ==
    /\ Seeded
    /\ Loaded(1) /\ Loaded(2)
    /\ Len(evaluators[1].loaded) = 3
    /\ evaluators[1].max_questions = 2
    /\ evaluators[1].random_seed.value = 42
    /\ evaluators[1].questions[1].question = "q3"
    /\ evaluators[1].questions[2].question = "q1"
    /\ evaluators[1].questions = evaluators[2].questions
    /\ evaluators[1].questions # SlicePrefix(evaluators[1].loaded, 2)
    /\ evaluators[1].seedings = 1 /\ evaluators[2].seedings = 1

\* C30: for n loaded questions and max_questions m >= 0 a run holds exactly
\* min(n, m) questions, taken from distinct positions of the loaded list,
\* and the loaded list itself, in its order, when n <= m; with a seed or
\* without.
C30_SamplingCapsBatch ==
    \A r \in Runs :
        Loaded(r) =>
            LET e == evaluators[r]
                n == Len(e.loaded)
                m == e.max_questions
            IN /\ Len(e.questions) = Min(n, m)
               /\ \E pos \in [1..Len(e.questions) -> 1..Max(n, 1)] :
                     /\ \A a \in 1..Len(e.questions) :
                           pos[a] <= n /\ e.questions[a] = e.loaded[pos[a]]
                     /\ \A a, b \in 1..Len(e.questions) :
                           a # b => pos[a] # pos[b]
               /\ n <= m => e.questions = e.loaded

\* an unseeded run has cut three questions to two
C30_Witness ==
    /\ Loaded(1)
    /\ ~evaluators[1].random_seed.given
    /\ Len(evaluators[1].loaded) = 3
    /\ evaluators[1].max_questions = 2
    /\ Len(evaluators[1].questions) = 2
    /\ evaluators[1].questions[1] # evaluators[1].questions[2]

====
